---- MODULE Spec2Model ----
(***************************************************************************)
(* A model of the Dialect-Backend HTTP service (FastAPI): the chunked      *)
(* upload store under <tmp>/chunks, the merge endpoint, the one-shot       *)
(* transcription endpoints and the bearer-token check.                     *)
(*                                                                         *)
(* Strings are sequences of one-character strings, so that formatting      *)
(* (f"chunk_{i:06d}"), prefix tests, split("_") and int() are computed as  *)
(* the code computes them.  Bytes are small integers.  A Python value that *)
(* may be None is a set: {} is None and {v} is the value v.                *)
(*                                                                         *)
(* Every handler is an `async def`: it runs on the event loop and other    *)
(* requests interleave with it only at its `await`s.  One action of the    *)
(* model is the code between two awaits.                                   *)
(***************************************************************************)
EXTENDS Integers, Sequences, FiniteSets, TLC

(***************************************************************************)
(* Bounds of the model.                                                    *)
(***************************************************************************)
\* Number of requests the clients send in one behaviour of each specification.
MaxReqs == 3
MaxStoreReqs == 4
MaxPathReqs == 3
MaxKeyReqs == 3
MaxInputReqs == 2

(***************************************************************************)
(* Strings.                                                                *)
(***************************************************************************)
NoneV == {}
Some(v) == {v}
IsNone(o) == o = {}
Val(o) == CHOOSE v \in o : TRUE

\* o.get(default): the value, or the default when the key is absent
GetOr(o, d) == IF o = {} THEN d ELSE Val(o)

DigitChars == <<"0", "1", "2", "3", "4", "5", "6", "7", "8", "9">>

IsDigit(c) == \E k \in 1..10 : DigitChars[k] = c

DigitVal(c) == (CHOOSE k \in 1..10 : DigitChars[k] = c) - 1

Abs(n) == IF n < 0 THEN 0 - n ELSE n

RECURSIVE NatStr(_)
\* str(n) for n >= 0
NatStr(n) ==
    IF n < 10 THEN <<DigitChars[n + 1]>>
    ELSE NatStr(n \div 10) \o <<DigitChars[(n % 10) + 1]>>

RECURSIVE ZeroPad(_, _)
\* s left-padded with "0" to width w
ZeroPad(s, w) == IF Len(s) >= w THEN s ELSE ZeroPad(<<"0">> \o s, w)

\* format(n, "06d"): the sign counts in the width
Format06d(n) ==
    IF n < 0 THEN <<"-">> \o ZeroPad(NatStr(Abs(n)), 5)
    ELSE ZeroPad(NatStr(n), 6)

RECURSIVE DigitsVal(_, _)
DigitsVal(s, acc) ==
    IF s = <<>> THEN acc ELSE DigitsVal(Tail(s), acc * 10 + DigitVal(Head(s)))

AllDigits(s) == s # <<>> /\ \A k \in 1..Len(s) : IsDigit(s[k])

\* int(s) raises ValueError
IntFails(s) ==
    IF s # <<>> /\ Head(s) \in {"-", "+"} THEN ~AllDigits(Tail(s)) ELSE ~AllDigits(s)

\* int(s) where it does not raise
IntOf(s) ==
    IF Head(s) = "-" THEN 0 - DigitsVal(Tail(s), 0)
    ELSE IF Head(s) = "+" THEN DigitsVal(Tail(s), 0)
    ELSE DigitsVal(s, 0)

\* s.startswith(pre)
StartsWith(s, pre) == Len(s) >= Len(pre) /\ SubSeq(s, 1, Len(pre)) = pre

RECURSIVE Split(_, _)
\* s.split(sep) for a one-character separator: a sequence of strings
Split(s, sep) ==
    IF \A k \in 1..Len(s) : s[k] # sep THEN <<s>>
    ELSE LET k == CHOOSE j \in 1..Len(s) :
                      s[j] = sep /\ \A i \in 1..(j - 1) : s[i] # sep
         IN <<SubSeq(s, 1, k - 1)>> \o Split(SubSeq(s, k + 1, Len(s)), sep)

ChunkPrefix == <<"c", "h", "u", "n", "k", "_">>
WavSuffix == <<".", "w", "a", "v">>
DotDot == <<".", ".">>
Dot == <<".">>

\* f"chunk_{chunk_index_int:06d}"
ChunkName(i) == ChunkPrefix \o Format06d(i)

\* the sort key of merge_chunks: x.split("_")[1]
SortKeyStr(name) == Split(name, "_")[2]

(***************************************************************************)
(* The file system under tempfile.gettempdir().  A path is the sequence of *)
(* its components below that directory, which always exists.  fs.dirs is   *)
(* the set of directories, fs.files maps each regular file to its bytes.   *)
(***************************************************************************)
EmptyFS == [dirs |-> {}, files |-> <<>>]

ChunksDirName == <<"c", "h", "u", "n", "k", "s">>

\* the components of a path string: empty ones ("a//b", "a/") are skipped
Components(s) == SelectSeq(Split(s, "/"), LAMBDA c : c # <<>>)

Parent(path) == IF path = <<>> THEN <<>> ELSE SubSeq(path, 1, Len(path) - 1)

IsDirAt(fs, path) == path = <<>> \/ path \in fs.dirs

IsFileAt(fs, path) == path \in DOMAIN fs.files

RECURSIVE Resolve(_, _, _)
\* The kernel's walk of a path from directory cur: every component but the
\* last is looked up in an existing directory.  ok is FALSE for ENOENT or
\* ENOTDIR on the way; path is the entry the last component names.
Resolve(fs, cur, comps) ==
    IF comps = <<>> THEN [ok |-> TRUE, path |-> cur]
    ELSE IF ~IsDirAt(fs, cur) THEN [ok |-> FALSE, path |-> cur]
    ELSE LET c == Head(comps)
         IN IF c = Dot THEN Resolve(fs, cur, Tail(comps))
            ELSE IF c = DotDot THEN Resolve(fs, Parent(cur), Tail(comps))
            ELSE Resolve(fs, cur \o <<c>>, Tail(comps))

\* os.path.join(tempfile.gettempdir(), "chunks", md5), as components
ChunkDirComps(md5) == <<ChunksDirName>> \o Components(md5)

\* os.path.isdir(path)
IsDir(fs, comps) ==
    LET r == Resolve(fs, <<>>, comps) IN r.ok /\ IsDirAt(fs, r.path)

RECURSIVE MakeDirsFrom(_, _, _)
\* os.makedirs(path, exist_ok=True): each component is created in turn where
\* it is missing; ".." steps up; a regular file in the way raises.
MakeDirsFrom(fs, cur, comps) ==
    IF comps = <<>> THEN [ok |-> TRUE, fs |-> fs]
    ELSE LET c == Head(comps)
         IN IF c = Dot THEN MakeDirsFrom(fs, cur, Tail(comps))
            ELSE IF c = DotDot THEN MakeDirsFrom(fs, Parent(cur), Tail(comps))
            ELSE LET nxt == cur \o <<c>>
                 IN IF IsFileAt(fs, nxt) THEN [ok |-> FALSE, fs |-> fs]
                    ELSE MakeDirsFrom([fs EXCEPT !.dirs = @ \cup {nxt}],
                                      nxt, Tail(comps))

\* _ensure_dir(path)
EnsureDir(fs, comps) == MakeDirsFrom(fs, <<>>, comps)

\* fs with file path holding bytes b (created where missing)
PutFile(fs, path, b) ==
    [fs EXCEPT !.files = [q \in (DOMAIN fs.files) \cup {path} |->
                             IF q = path THEN b ELSE fs.files[q]]]

\* fs without the regular file path
DelFile(fs, path) ==
    [fs EXCEPT !.files = [q \in (DOMAIN fs.files) \ {path} |-> fs.files[q]]]

\* open(path, "wb"): the file is created or truncated.  It raises when a
\* directory on the way is missing or the path names a directory.
OpenWb(fs, comps) ==
    LET r == Resolve(fs, <<>>, comps)
    IN IF r.ok /\ IsDirAt(fs, Parent(r.path)) /\ ~IsDirAt(fs, r.path)
       THEN [ok |-> TRUE, path |-> r.path, fs |-> PutFile(fs, r.path, <<>>)]
       ELSE [ok |-> FALSE, path |-> r.path, fs |-> fs]

\* f.write(b) on a descriptor opened "wb" and still at offset 0: the first
\* Len(b) bytes of the file are replaced, bytes beyond stay
WriteAt0(old, b) ==
    IF Len(old) <= Len(b) THEN b ELSE b \o SubSeq(old, Len(b) + 1, Len(old))

\* os.listdir(dir): the names of the entries of directory dir
ListDir(fs, dir) ==
    {q[Len(q)] : q \in {e \in (DOMAIN fs.files) \cup fs.dirs :
                            e # <<>> /\ Parent(e) = dir}}

\* os.rmdir(dir) succeeds: dir is an empty directory
CanRmdir(fs, dir) == dir \in fs.dirs /\ ListDir(fs, dir) = {}

(***************************************************************************)
(* Bearer-token check (app/api/deps.py) and configuration.                 *)
(***************************************************************************)
\* settings.API_KEY
API_KEY == <<"k">>

UpperChars == <<"B", "E", "A", "R">>
LowerChars == <<"b", "e", "a", "r">>

LowerChar(c) ==
    IF \E k \in 1..Len(UpperChars) : UpperChars[k] = c
    THEN LowerChars[CHOOSE k \in 1..Len(UpperChars) : UpperChars[k] = c]
    ELSE c

\* s.lower()
Lower(s) == [k \in 1..Len(s) |-> LowerChar(s[k])]

\* s.partition(sep): <<before, sep, after>> at the first sep, else <<s, "", "">>
Partition(s, sep) ==
    IF \A k \in 1..Len(s) : s[k] # sep THEN <<s, <<>>, <<>>>>
    ELSE LET k == CHOOSE j \in 1..Len(s) :
                      s[j] = sep /\ \A i \in 1..(j - 1) : s[i] # sep
         IN <<SubSeq(s, 1, k - 1), <<sep>>, SubSeq(s, k + 1, Len(s))>>

BearerScheme == <<"b", "e", "a", "r", "e", "r">>

\* verify_api_key without the comparison of the token
VerifyApiKeyAnyToken(authorization) ==
    IF IsNone(authorization) \/ Val(authorization) = <<>>
    THEN "Authorization header is missing"
    ELSE IF Lower(Partition(Val(authorization), " ")[1]) # BearerScheme
    THEN "Invalid API Key"
    ELSE ""

\* verify_api_key: "" when the request passes, else the detail of the 401
VerifyApiKey(authorization) ==
    IF IsNone(authorization) \/ Val(authorization) = <<>>
    THEN "Authorization header is missing"
    ELSE LET parts == Partition(Val(authorization), " ")
         IN IF Lower(parts[1]) # BearerScheme \/ parts[3] # API_KEY
            THEN "Invalid API Key"
            ELSE ""

(***************************************************************************)
(* The recognizer (app/services/asr_service.py).  The model pipelines are  *)
(* external: a call of the ASR pipeline ends in one of AsrOutcomes.        *)
(***************************************************************************)
AsrOutcomes == {"text", "empty", "raise"}

RecognizedText == <<"t">>

\* _run_asr: None when the pipeline raises, "" for an empty list
RunAsr(outcome) ==
    CASE outcome = "raise" -> NoneV
      [] outcome = "empty" -> Some(<<>>)
      [] OTHER -> Some(RecognizedText)

\* ASRService.transcribe: the result dictionary (its "text").  Every stage
\* catches its own exceptions, so the except clause of transcribe (return
\* None) is never entered.
Transcribe(outcome) ==
    LET asr_result == RunAsr(outcome)
    IN IF IsNone(asr_result) \/ Val(asr_result) = <<>>
       THEN [text |-> <<>>]
       ELSE [text |-> Val(asr_result)]

\* formatters.to_verbose_json / to_simple_json / to_text: the text returned
ResultText(result) == result.text

(***************************************************************************)
(* Requests.  A request is what the client sends: the Authorization        *)
(* header, the content type, the upload-* headers, the multipart form      *)
(* fields, the payload and the JSON body.                                  *)
(***************************************************************************)
Procs == {"p1", "p2"}

KeyA == <<"A">>
KeyB == <<"B">>
\* a contentKey with a path-traversal sequence: "../X"
KeyUp == <<".", ".", "/", "X">>

GoodAuth == Some(<<"B", "e", "a", "r", "e", "r", " ", "k">>)
BadAuths == {NoneV,
             Some(<<"B", "e", "a", "r", "e", "r", " ", "w">>),
             Some(<<"B", "a", "s", "i", "c", " ", "k">>)}

OffsetType == "application/offset+octet-stream"
MultipartType == "multipart/form-data"

BlankReq ==
    [ep |-> "none", auth |-> NoneV, ctype |-> MultipartType,
     hmd5 |-> NoneV, hidx |-> NoneV, htotal |-> NoneV, hname |-> NoneV,
     formOk |-> FALSE, ffile |-> "none",
     fmd5 |-> NoneV, fidx |-> NoneV, ftotal |-> NoneV, fname |-> NoneV,
     body |-> <<>>,
     jsonOk |-> FALSE, jmd5 |-> NoneV, jfilename |-> NoneV,
     jcleanup |-> NoneV, jurl |-> NoneV]

TotalStr == <<"2">>

\* raw-bytes upload: metadata in the upload-* headers
RawReq(ct, k, i, t, n, b) ==
    [BlankReq EXCEPT !.ep = "chunk", !.auth = GoodAuth, !.ctype = ct,
                     !.hmd5 = k, !.hidx = i, !.htotal = t, !.hname = n,
                     !.body = b]

\* multipart upload: metadata in the form fields
FormReq(fk, k, i, t, n, b) ==
    [BlankReq EXCEPT !.ep = "chunk", !.auth = GoodAuth, !.formOk = TRUE,
                     !.ffile = fk, !.fmd5 = k, !.fidx = i, !.ftotal = t,
                     !.fname = n, !.body = b]

\* merge request with JSON body {fileMd5, filename, cleanup}
MergeReq(k, fn, cl) ==
    [BlankReq EXCEPT !.ep = "merge", !.auth = GoodAuth, !.jsonOk = TRUE,
                     !.jmd5 = k, !.jfilename = fn, !.jcleanup = cl]

\* from_url request with JSON body {url}
UrlReq(u) ==
    [BlankReq EXCEPT !.ep = "from_url", !.auth = GoodAuth, !.jsonOk = TRUE,
                     !.jurl = u]

\* transcriptions request (the multipart file and model fields are there:
\* FastAPI answers 422 itself when they are not)
TransReq == [BlankReq EXCEPT !.ep = "transcriptions", !.auth = GoodAuth,
                             !.formOk = TRUE, !.ffile = "upload", !.body = <<1>>]

WithAuth(r, a) == [r EXCEPT !.auth = a]

(***************************************************************************)
(* State.                                                                  *)
(***************************************************************************)
VARIABLES
    fs,        \* the file system under the temporary directory
    tmpfiles,  \* the temporary files (mkstemp, NamedTemporaryFile) that exist
    pc,        \* per request slot: the await the handler is suspended at
    req,       \* per request slot: the request being handled
    fd,        \* per request slot: the chunk file the handler holds open
    last,      \* the last response sent, with what its handler did
    nreq,      \* number of requests received
    acked,     \* history: per <<key, index>>, the acknowledged uploads
    begun,     \* history: the keys an upload has touched the store for
    stamp      \* a call of the timestamp formatter: its argument and results

vars == <<fs, tmpfiles, pc, req, fd, last, nreq, acked, begun, stamp>>

NoFd == [live |-> FALSE, path |-> <<>>]

BlankLast ==
    [ep |-> "none", auth |-> NoneV, status |-> 0,
     detail |-> "", key |-> NoneV, idx |-> NoneV, name |-> <<>>,
     bytes |-> NoneV, text |-> NoneV, asr |-> "none", artifact |-> NoneV,
     parts |-> <<>>, cleanup |-> FALSE, tmp |-> NoneV, removed |-> 0,
     req |-> BlankReq, warned |-> FALSE]

\* no timestamp is being formatted
NoStamp == [ms |-> 0, srt |-> <<>>, vtt |-> <<>>]

\* the service after start-up: an empty store, no request
ServerInit ==
    /\ fs = EmptyFS
    /\ tmpfiles = {}
    /\ pc = [p \in Procs |-> "idle"]
    /\ req = [p \in Procs |-> BlankReq]
    /\ fd = [p \in Procs |-> NoFd]
    /\ last = BlankLast
    /\ nreq = 0
    /\ acked = <<>>
    /\ begun = {}

Init == ServerInit /\ stamp = NoStamp

\* the key a request names (fileMd5 / upload-file-md5), None when absent
ReqKey(r) ==
    IF r.ep = "merge" THEN r.jmd5
    ELSE IF r.ep = "chunk" THEN (IF IsNone(r.hmd5) THEN r.fmd5 ELSE r.hmd5)
    ELSE NoneV

\* the response to request r: an HTTPException or an unhandled exception
ErrorResp(r, status, detail) ==
    [BlankLast EXCEPT !.ep = r.ep, !.auth = r.auth, !.key = ReqKey(r),
                      !.status = status, !.detail = detail]

\* an error response sent before the handler's first await (the record
\* keeps the request that was refused)
Refused(r, status, detail) == [ErrorResp(r, status, detail) EXCEPT !.req = r]

\* the handler of slot p returns rec
Reply(p, rec) ==
    /\ last' = rec
    /\ pc' = [pc EXCEPT ![p] = "idle"]
    /\ req' = [req EXCEPT ![p] = BlankReq]

\* the handler of slot p, serving r, suspends at await `at`
Suspend(p, r, at) ==
    /\ pc' = [pc EXCEPT ![p] = at]
    /\ req' = [req EXCEPT ![p] = r]
    /\ UNCHANGED last

\* A new request is served in the first free slot (slots are anonymous).
Accepts(p, max) ==
    /\ pc[p] = "idle"
    /\ nreq < max
    /\ p = "p2" => pc["p1"] # "idle"

FileAt(f, path) == IF path \in DOMAIN f.files THEN Some(f.files[path]) ELSE NoneV

\* Descriptors after a step: slot p holds `mine`; a descriptor of another
\* slot stays attached to its path unless the step unlinked the file.
FdAfter(p, mine) ==
    fd' = [q \in Procs |->
              IF q = p THEN mine
              ELSE [fd[q] EXCEPT !.live = @ /\ fd[q].path \in DOMAIN fs'.files]]

RECURSIVE SumAcks(_, _)
SumAcks(h, S) ==
    IF S = {} THEN 0
    ELSE LET e == CHOOSE x \in S : TRUE IN h[e].n + SumAcks(h, S \ {e})

\* number of uploads acknowledged so far
TotalAcks == SumAcks(acked, DOMAIN acked)

\* History after a step that acknowledged the uploads in ack (records
\* [key, idx, path, data]).  Per <<key, index>>: n, the number of
\* acknowledged uploads; data, the bytes of the last one; seq, its place
\* among all acknowledgements; path, the file it was written to; intact,
\* whether no later step changed that file; before, the slots whose merge
\* request had been received before the acknowledgement and is not done.
AckedAfter(ack) ==
    acked' = [e \in (DOMAIN acked) \cup {<<a.key, a.idx>> : a \in ack} |->
                 IF \E a \in ack : <<a.key, a.idx>> = e
                 THEN LET a == CHOOSE b \in ack : <<b.key, b.idx>> = e
                      IN [n |-> (IF e \in DOMAIN acked THEN acked[e].n ELSE 0) + 1,
                          data |-> a.data, path |-> a.path,
                          seq |-> TotalAcks + 1, intact |-> TRUE,
                          before |-> {q \in Procs : pc[q] = "merge"}]
                 ELSE [acked[e] EXCEPT
                          !.intact = @ /\ FileAt(fs, acked[e].path)
                                          = FileAt(fs', acked[e].path),
                          !.before = {q \in @ : pc'[q] = "merge"}]]

\* a lock around every await: one handler at a time between awaits
ResumesAlone(p, at) ==
    /\ pc[p] = at
    /\ \A q \in Procs \ {p} : pc[q] = "idle"

\* the event loop resumes the handler of slot p, suspended at await `at`;
\* no lock is taken anywhere, so nothing else is waited for
Resumes(p, at) == pc[p] = at

(***************************************************************************)
(* POST /v1/audio/chunk (upload_chunk).                                    *)
(***************************************************************************)
\* the raw-bytes branch is taken
RawRoute(r) ==
    \/ r.ctype = OffsetType
    \/ ~IsNone(r.hmd5) /\ ~IsNone(r.hidx) /\ ~IsNone(r.htotal)

\* os.path.join(base_dir, f"chunk_{chunk_index_int:06d}")
ChunkPathComps(md5, idxStr) == ChunkDirComps(md5) \o <<ChunkName(IntOf(idxStr))>>

UnknownName == <<"u", "n", "k", "n", "o", "w", "n">>

\* the acknowledgement of the raw-bytes branch
RawAck(r) ==
    [BlankLast EXCEPT !.ep = "chunk", !.auth = r.auth,
                      !.status = 200, !.detail = "ok", !.key = r.hmd5,
                      !.idx = Some(IntOf(Val(r.hidx))),
                      !.name = GetOr(r.hname, UnknownName),
                      !.bytes = Some(Len(r.body))]

\* the acknowledgement of the multipart branch
FormAck(r) ==
    [BlankLast EXCEPT !.ep = "chunk", !.auth = r.auth,
                      !.status = 200, !.detail = "ok", !.key = r.fmd5,
                      !.idx = Some(IntOf(Val(r.fidx))),
                      !.name = GetOr(r.fname, UnknownName)]

\* upload_chunk up to its first await: request.body() in the raw-bytes
\* branch (after the directory is made), request.form() otherwise
StartChunk(p, reqs, max) ==
    /\ Accepts(p, max)
    /\ nreq' = nreq + 1
    /\ \E r \in reqs :
        LET deny == VerifyApiKey(r.auth)
        IN IF deny # ""
           THEN /\ Reply(p, ErrorResp(r, 401, deny))
                /\ UNCHANGED <<fs, begun>>
           ELSE IF ~RawRoute(r)
           THEN /\ Suspend(p, r, "form")
                /\ UNCHANGED <<fs, begun>>
           ELSE IF IsNone(r.hmd5) \/ Val(r.hmd5) = <<>>
                   \/ IsNone(r.hidx) \/ IsNone(r.htotal)
           THEN /\ Reply(p, Refused(r, 400, "Missing required upload headers"))
                /\ UNCHANGED <<fs, begun>>
           ELSE IF IntFails(Val(r.hidx)) \/ IntFails(Val(r.htotal))
           THEN /\ Reply(p, Refused(r, 400, "Invalid chunk index or total chunks"))
                /\ UNCHANGED <<fs, begun>>
           ELSE LET mk == EnsureDir(fs, ChunkDirComps(Val(r.hmd5)))
                IN IF ~mk.ok
                   THEN /\ Reply(p, Refused(r, 500, "Internal Server Error"))
                        /\ UNCHANGED <<fs, begun>>
                   ELSE /\ fs' = mk.fs
                        /\ begun' = begun \cup {Val(r.hmd5)}
                        /\ Suspend(p, r, "body")
    /\ FdAfter(p, NoFd)
    /\ AckedAfter({})
    /\ UNCHANGED tmpfiles
    /\ UNCHANGED stamp

\* raw-bytes branch after `await request.body()`: open, write, acknowledge
RawBody(p) ==
    /\ Resumes(p, "body")
    /\ LET r == req[p]
           o == OpenWb(fs, ChunkPathComps(Val(r.hmd5), Val(r.hidx)))
       IN IF ~o.ok
          THEN /\ fs' = fs
               /\ Reply(p, ErrorResp(r, 500, "Internal Server Error"))
               /\ FdAfter(p, NoFd)
               /\ AckedAfter({})
          ELSE /\ fs' = PutFile(o.fs, o.path, r.body)
               /\ Reply(p, RawAck(r))
               /\ FdAfter(p, NoFd)
               /\ AckedAfter({[key |-> Val(r.hmd5), idx |-> IntOf(Val(r.hidx)),
                               path |-> o.path, data |-> r.body]})
    /\ UNCHANGED <<tmpfiles, nreq, begun>>
    /\ UNCHANGED stamp

\* multipart branch after `await request.form()`: validate, make the
\* directory, open the chunk file, then `await chunk.read()` with it open
FormParsed(p) ==
    /\ Resumes(p, "form")
    /\ LET r == req[p]
       IN IF ~r.formOk
          THEN /\ Reply(p, ErrorResp(r, 400, "Failed to process chunk"))
               /\ fs' = fs /\ FdAfter(p, NoFd) /\ UNCHANGED begun
          ELSE IF r.ffile = "none" \/ IsNone(r.fmd5) \/ Val(r.fmd5) = <<>>
                  \/ IsNone(r.fidx) \/ IsNone(r.ftotal)
          THEN /\ Reply(p, ErrorResp(r, 400, "Invalid multipart form fields"))
               /\ fs' = fs /\ FdAfter(p, NoFd) /\ UNCHANGED begun
          ELSE IF IntFails(Val(r.fidx)) \/ IntFails(Val(r.ftotal))
          THEN /\ Reply(p, ErrorResp(r, 400, "Invalid chunk index or total chunks"))
               /\ fs' = fs /\ FdAfter(p, NoFd) /\ UNCHANGED begun
          ELSE LET mk == EnsureDir(fs, ChunkDirComps(Val(r.fmd5)))
                   o == OpenWb(mk.fs, ChunkPathComps(Val(r.fmd5), Val(r.fidx)))
               IN IF ~mk.ok
                  THEN /\ Reply(p, ErrorResp(r, 400, "Failed to process chunk"))
                       /\ fs' = fs /\ FdAfter(p, NoFd) /\ UNCHANGED begun
                  ELSE IF ~o.ok
                  THEN /\ Reply(p, ErrorResp(r, 400, "Failed to process chunk"))
                       /\ fs' = mk.fs /\ FdAfter(p, NoFd)
                       /\ begun' = begun \cup {Val(r.fmd5)}
                  ELSE IF r.ffile = "text"
                  THEN \* a plain form field has no read(): AttributeError
                       /\ Reply(p, ErrorResp(r, 400, "Failed to process chunk"))
                       /\ fs' = o.fs /\ FdAfter(p, NoFd)
                       /\ begun' = begun \cup {Val(r.fmd5)}
                  ELSE /\ Suspend(p, r, "read")
                       /\ fs' = o.fs
                       /\ FdAfter(p, [live |-> TRUE, path |-> o.path])
                       /\ begun' = begun \cup {Val(r.fmd5)}
    /\ AckedAfter({})
    /\ UNCHANGED <<tmpfiles, nreq>>
    /\ UNCHANGED stamp

\* multipart branch after `await chunk.read()`: write through the open
\* descriptor, close, acknowledge
ChunkRead(p) ==
    /\ Resumes(p, "read")
    /\ LET r == req[p]
           path == fd[p].path
       IN /\ fs' = IF fd[p].live
                   THEN PutFile(fs, path, WriteAt0(fs.files[path], r.body))
                   ELSE fs
          /\ Reply(p, FormAck(r))
          /\ FdAfter(p, NoFd)
          /\ AckedAfter({[key |-> Val(r.fmd5), idx |-> IntOf(Val(r.fidx)),
                          path |-> path, data |-> r.body]})
    /\ UNCHANGED <<tmpfiles, nreq, begun>>
    /\ UNCHANGED stamp

(***************************************************************************)
(* POST /v1/audio/merge (merge_chunks).                                    *)
(***************************************************************************)
\* [f for f in os.listdir(base_dir) if f.startswith("chunk_")]
ChunkFiles(f, base) == {n \in ListDir(f, base) : StartsWith(n, ChunkPrefix)}

\* key=lambda x: int(x.split("_")[1]) raises ValueError on some name
SortKeyFails(names) == \E n \in names : IntFails(SortKeyStr(n))

SortKey(name) == IntOf(SortKeyStr(name))

\* the orderings of a finite set
Orderings(S) ==
    {o \in [1..Cardinality(S) -> S] : \A e \in S : \E k \in 1..Cardinality(S) : o[k] = e}

\* sorted(names, key=..., reverse=True)
SortedChunksDesc(names) ==
    {o \in Orderings(names) :
        \A i, j \in 1..Len(o) : i < j => SortKey(o[i]) >= SortKey(o[j])}

\* the code point of a character of a chunk name's index part
CharOrd(c) == IF c = "-" THEN 45 ELSE 48 + DigitVal(c)

RECURSIVE LexLeq(_, _)
\* a <= b as Python compares strings: character by character
LexLeq(a, b) ==
    IF a = <<>> THEN TRUE
    ELSE IF b = <<>> THEN FALSE
    ELSE IF CharOrd(Head(a)) # CharOrd(Head(b))
    THEN CharOrd(Head(a)) < CharOrd(Head(b))
    ELSE LexLeq(Tail(a), Tail(b))

\* sorted(names): by the name itself, without the integer key
SortedChunksLex(names) ==
    {o \in Orderings(names) :
        \A i, j \in 1..Len(o) :
            i < j => LexLeq(SortKeyStr(o[i]), SortKeyStr(o[j]))}

\* sorted(names, key=...): ascending by the parsed index; names with equal
\* keys keep the order os.listdir gave them, which is arbitrary
SortedChunks(names) ==
    {o \in Orderings(names) :
        \A i, j \in 1..Len(o) : i < j => SortKey(o[i]) <= SortKey(o[j])}

RECURSIVE ReadChunks(_, _, _, _, _, _)
\* The copy loop: each chunk file is read whole and appended to the output.
\* A chunk that is the output file itself reads what the buffered writer
\* has flushed: everything written so far (flush) or nothing.
\* parts is the sequence of <<index parsed from the name, bytes read>>.
ReadChunks(f, base, order, outPath, flush, acc) ==
    IF order = <<>> THEN acc
    ELSE LET path == base \o <<Head(order)>>
             got == IF path = outPath
                    THEN (IF flush /\ acc.parts # <<>>
                          THEN acc.content ELSE <<>>)
                    ELSE f.files[path]
         IN ReadChunks(f, base, Tail(order), outPath, flush,
                       [content |-> acc.content \o got,
                        parts |-> Append(acc.parts, <<SortKey(Head(order)), got>>)])

RECURSIVE RemoveAll(_, _, _)
\* for f in chunk_files: os.remove(...); ok is FALSE when one is missing
RemoveAll(f, base, order) ==
    IF order = <<>> THEN [ok |-> TRUE, fs |-> f]
    ELSE LET path == base \o <<Head(order)>>
         IN IF ~IsFileAt(f, path) THEN [ok |-> FALSE, fs |-> f]
            ELSE RemoveAll(DelFile(f, path), base, Tail(order))

\* The cleanup block: remove the chunks, the merged file, then the
\* directory; the first exception ends it (it is logged, nothing more).
Cleanup(f, base, order, outPath) ==
    LET rm == RemoveAll(f, base, order)
    IN IF ~rm.ok THEN rm.fs
       ELSE IF ~IsFileAt(rm.fs, outPath) THEN rm.fs
       ELSE LET g == DelFile(rm.fs, outPath)
            IN IF CanRmdir(g, base)
               THEN [g EXCEPT !.dirs = @ \ {base}]
               ELSE g

\* an exception is raised in the cleanup block
CleanupRaises(f, base, order, outPath) ==
    LET rm == RemoveAll(f, base, order)
    IN \/ ~rm.ok
       \/ ~IsFileAt(rm.fs, outPath)
       \/ ~CanRmdir(DelFile(rm.fs, outPath), base)

\* a cleanup block whose exception is not caught
AfterCleanupFail(raised, resp) ==
    IF raised
    THEN [BlankLast EXCEPT !.ep = resp.ep, !.auth = resp.auth, !.key = resp.key,
                           !.status = 500, !.detail = "Internal Server Error"]
    ELSE resp

\* `except Exception as e: logger.warning(...)`: an exception of the cleanup
\* block is logged and the handler goes on to its return
AfterCleanup(raised, resp) == [resp EXCEPT !.warned = raised]

\* merge_chunks without the checks
MergeCheckNone(f, baseC, names) == [status |-> 200, detail |-> ""]

\* The checks before the merged file is opened: status 200 to go on, else
\* the error.  sorted() runs (and may raise) before the list is tested.
MergeCheck(f, baseC, names) ==
    IF ~IsDir(f, baseC) THEN [status |-> 400, detail |-> "Chunk directory not found"]
    ELSE IF SortKeyFails(names) THEN [status |-> 500, detail |-> "Internal Server Error"]
    ELSE IF names = {} THEN [status |-> 400, detail |-> "No chunks found to merge"]
    ELSE [status |-> 200, detail |-> ""]

\* f"{file_md5}.wav"
DefaultFilename(md5) == md5 \o WavSuffix

\* the response of a merge that got as far as the recognizer
MergeOk(r, result, outcome, rd, cleanup) ==
    [BlankLast EXCEPT !.ep = "merge", !.auth = r.auth, !.key = r.jmd5,
                      !.status = 200, !.detail = "ok",
                      !.text = Some(ResultText(result)), !.asr = outcome,
                      !.artifact = Some(rd.content), !.parts = rd.parts,
                      !.cleanup = cleanup]

\* merge_chunks up to `await request.json()`
StartMerge(p, reqs, max) ==
    /\ Accepts(p, max)
    /\ nreq' = nreq + 1
    /\ \E r \in reqs :
        LET deny == VerifyApiKey(r.auth)
        IN IF deny # ""
           THEN Reply(p, ErrorResp(r, 401, deny))
           ELSE Suspend(p, r, "merge")
    /\ fs' = fs
    /\ FdAfter(p, NoFd)
    /\ AckedAfter({})
    /\ UNCHANGED <<tmpfiles, begun>>
    /\ UNCHANGED stamp

\* merge_chunks after `await request.json()`: no await follows, the list,
\* the copy, the recognizer call and the cleanup run without interleaving
MergeStep(p) ==
    /\ Resumes(p, "merge")
    /\ LET r == req[p]
       IN IF ~r.jsonOk
          THEN /\ fs' = fs
               /\ Reply(p, ErrorResp(r, 500, "Internal Server Error"))
          ELSE IF IsNone(r.jmd5) \/ Val(r.jmd5) = <<>>
          THEN /\ fs' = fs
               /\ Reply(p, ErrorResp(r, 400, "fileMd5 is required"))
          ELSE LET md5 == Val(r.jmd5)
                   filename == GetOr(r.jfilename, DefaultFilename(md5))
                   cleanup == GetOr(r.jcleanup, TRUE)
                   baseC == ChunkDirComps(md5)
                   base == Resolve(fs, <<>>, baseC).path
                   names == ChunkFiles(fs, base)
                   chk == MergeCheck(fs, baseC, names)
               IN IF chk.status # 200
                  THEN /\ fs' = fs
                       /\ Reply(p, ErrorResp(r, chk.status, chk.detail))
                  ELSE LET o == OpenWb(fs, baseC \o Components(filename))
                       IN IF ~o.ok
                          THEN /\ fs' = fs
                               /\ Reply(p, ErrorResp(r, 500, "Internal Server Error"))
                          ELSE \E order \in SortedChunks(names), flush \in BOOLEAN,
                                  outcome \in AsrOutcomes :
                                 LET rd == ReadChunks(o.fs, base, order, o.path, flush,
                                                      [content |-> <<>>, parts |-> <<>>])
                                     merged == PutFile(o.fs, o.path, rd.content)
                                     result == Transcribe(outcome)
                                     raised == cleanup /\ CleanupRaises(merged, base,
                                                                        order, o.path)
                                 IN /\ fs' = IF cleanup
                                             THEN Cleanup(merged, base, order, o.path)
                                             ELSE merged
                                    /\ Reply(p, AfterCleanup(raised,
                                                 MergeOk(r, result, outcome, rd, cleanup)))
    /\ FdAfter(p, NoFd)
    /\ AckedAfter({})
    /\ UNCHANGED <<tmpfiles, nreq, begun>>
    /\ UNCHANGED stamp

(***************************************************************************)
(* POST /v1/audio/transcriptions (create_transcription) and                *)
(* POST /v1/audio/from_url (transcribe_from_url).                          *)
(***************************************************************************)
\* the response of a one-shot transcription that got as far as the recognizer
TextResp(r, result, outcome, tmp) ==
    [BlankLast EXCEPT !.ep = r.ep, !.auth = r.auth, !.status = 200,
                      !.detail = "ok", !.text = Some(ResultText(result)),
                      !.asr = outcome, !.tmp = Some(tmp)]

\* create_transcription: the handler has no await.  copied is whether
\* shutil.copyfileobj into the temporary file went through.
StartTranscription(p, reqs, max) ==
    /\ Accepts(p, max)
    /\ nreq' = nreq + 1
    /\ \E r \in reqs :
        LET deny == VerifyApiKey(r.auth)
            tmp == nreq + 1
        IN IF deny # ""
           THEN /\ Reply(p, ErrorResp(r, 401, deny))
                /\ UNCHANGED tmpfiles
           ELSE \E copied \in BOOLEAN, outcome \in AsrOutcomes :
                  IF ~copied
                  THEN \* the first try has no except: the file stays
                       /\ tmpfiles' = tmpfiles \cup {tmp}
                       /\ Reply(p, [ErrorResp(r, 500, "Internal Server Error")
                                       EXCEPT !.tmp = Some(tmp)])
                  ELSE \* the second try's finally: os.remove(tmp_audio_path)
                       /\ tmpfiles' = (tmpfiles \cup {tmp}) \ {tmp}
                       /\ Reply(p, [TextResp(r, Transcribe(outcome), outcome, tmp)
                                       EXCEPT !.removed = 1])
    /\ fs' = fs
    /\ FdAfter(p, NoFd)
    /\ AckedAfter({})
    /\ UNCHANGED begun
    /\ UNCHANGED stamp

\* transcribe_from_url up to `await request.json()`
StartFromUrl(p, reqs, max) ==
    /\ Accepts(p, max)
    /\ nreq' = nreq + 1
    /\ \E r \in reqs :
        LET deny == VerifyApiKey(r.auth)
        IN IF deny # ""
           THEN Reply(p, ErrorResp(r, 401, deny))
           ELSE Suspend(p, r, "url")
    /\ fs' = fs
    /\ FdAfter(p, NoFd)
    /\ AckedAfter({})
    /\ UNCHANGED <<tmpfiles, begun>>
    /\ UNCHANGED stamp

\* transcribe_from_url without its finally block
UrlFinallyNone(files, tmp) == [files |-> files, removed |-> 0]

\* the finally block of transcribe_from_url: the temporary file is removed
\* if it exists; removed counts the os.remove calls made
UrlFinally(files, tmp) ==
    IF tmp \in files THEN [files |-> files \ {tmp}, removed |-> 1]
    ELSE [files |-> files, removed |-> 0]

\* transcribe_from_url after `await request.json()`.  fetched is whether
\* urlopen and the copy into the temporary file went through.
FromUrlStep(p) ==
    /\ Resumes(p, "url")
    /\ LET r == req[p]
           tmp == 100 + nreq
       IN IF ~r.jsonOk
          THEN /\ Reply(p, ErrorResp(r, 500, "Internal Server Error"))
               /\ UNCHANGED tmpfiles
          ELSE IF IsNone(r.jurl) \/ Val(r.jurl) = <<>>
          THEN /\ Reply(p, ErrorResp(r, 400, "url is required"))
               /\ UNCHANGED tmpfiles
          ELSE \E fetched \in BOOLEAN, outcome \in AsrOutcomes :
                 LET fin == UrlFinally(tmpfiles \cup {tmp}, tmp)
                 IN /\ tmpfiles' = fin.files
                    /\ IF ~fetched
                       THEN Reply(p, [ErrorResp(r, 500, "Failed to transcribe from URL")
                                         EXCEPT !.tmp = Some(tmp),
                                                !.removed = fin.removed])
                       ELSE Reply(p, [TextResp(r, Transcribe(outcome), outcome, tmp)
                                         EXCEPT !.removed = fin.removed])
    /\ fs' = fs
    /\ FdAfter(p, NoFd)
    /\ AckedAfter({})
    /\ UNCHANGED <<nreq, begun>>
    /\ UNCHANGED stamp

(***************************************************************************)
(* Specifications.  Each draws the clients' requests from its own sets.    *)
(***************************************************************************)
\* Spec: every endpoint, with and without a valid token, and the
\* recognizer's outcomes; one key, one chunk index.
ApiChunkReqs ==
    LET raw == RawReq(OffsetType, Some(KeyA), Some(<<"0">>), Some(TotalStr), NoneV, <<1>>)
        form == FormReq("upload", Some(KeyA), Some(<<"0">>), Some(TotalStr), NoneV, <<1>>)
    IN {raw, form} \cup {WithAuth(raw, a) : a \in BadAuths}
                   \cup {WithAuth(form, a) : a \in BadAuths}

ApiMergeReqs ==
    LET m == MergeReq(Some(KeyA), NoneV, NoneV)
    IN {m, MergeReq(Some(KeyA), NoneV, Some(FALSE))} \cup {WithAuth(m, a) : a \in BadAuths}

ApiTransReqs == {TransReq} \cup {WithAuth(TransReq, a) : a \in BadAuths}

SomeUrl == <<"h">>

ApiUrlReqs ==
    {UrlReq(Some(SomeUrl)), UrlReq(NoneV)}
    \cup {WithAuth(UrlReq(Some(SomeUrl)), a) : a \in BadAuths}

Next ==
    \E p \in Procs :
        \/ StartChunk(p, ApiChunkReqs, MaxReqs)
        \/ RawBody(p)
        \/ FormParsed(p)
        \/ ChunkRead(p)
        \/ StartMerge(p, ApiMergeReqs, MaxReqs)
        \/ MergeStep(p)
        \/ StartTranscription(p, ApiTransReqs, MaxReqs)
        \/ StartFromUrl(p, ApiUrlReqs, MaxReqs)
        \/ FromUrlStep(p)

Spec == Init /\ [][Next]_vars

\* SpecStore: one upload session.  Chunks 0, 1 and 2 of key A arrive in any
\* order, chunk 0 in either transport form and with either payload, with
\* merges of the default file name.
StoreChunkReqs ==
    {RawReq(OffsetType, Some(KeyA), Some(<<"0">>), Some(TotalStr), NoneV, b) :
        b \in {<<1>>, <<2, 2>>}}
    \cup {FormReq("upload", Some(KeyA), Some(<<"0">>), Some(TotalStr), NoneV, b) :
        b \in {<<1>>, <<2, 2>>}}
    \cup {RawReq(OffsetType, Some(KeyA), Some(<<"1">>), Some(TotalStr), NoneV, <<2, 2>>),
          RawReq(OffsetType, Some(KeyA), Some(<<"2">>), Some(TotalStr), NoneV, <<3>>)}

StoreMergeReqs == {MergeReq(Some(KeyA), NoneV, cl) : cl \in {NoneV, Some(FALSE)}}

NextStore ==
    \E p \in Procs :
        \/ StartChunk(p, StoreChunkReqs, MaxStoreReqs)
        \/ RawBody(p)
        \/ FormParsed(p)
        \/ ChunkRead(p)
        \/ StartMerge(p, StoreMergeReqs, MaxStoreReqs)
        \/ MergeStep(p)

SpecStore == Init /\ [][NextStore]_vars

\* SpecPaths: several keys, one of them with a path-traversal sequence, and
\* merges that name their output file.
OutName == <<"o">>
\* "../B/chunk_000000"
OutInB == <<".", ".", "/", "B", "/">> \o ChunkName(0)

PathChunkReqs ==
    {RawReq(OffsetType, Some(k), Some(<<"0">>), Some(TotalStr), NoneV, <<1>>) :
        k \in {KeyA, KeyB, KeyUp}}
    \cup {FormReq("upload", Some(k), Some(<<"0">>), Some(TotalStr), NoneV, <<2, 2>>) :
        k \in {KeyA, KeyB}}

PathMergeReqs ==
    {MergeReq(Some(k), fn, cl) :
        k \in {KeyA, KeyB}, fn \in {NoneV, Some(OutName), Some(OutInB)},
        cl \in {NoneV, Some(FALSE)}}
    \cup {MergeReq(Some(KeyUp), NoneV, NoneV)}

NextPaths ==
    \E p \in Procs :
        \/ StartChunk(p, PathChunkReqs, MaxPathReqs)
        \/ RawBody(p)
        \/ FormParsed(p)
        \/ ChunkRead(p)
        \/ StartMerge(p, PathMergeReqs, MaxPathReqs)
        \/ MergeStep(p)

SpecPaths == Init /\ [][NextPaths]_vars

\* SpecKeys: uploads only, for two keys, in both transport forms.
KeyChunkReqs ==
    {RawReq(OffsetType, Some(k), Some(<<"0">>), Some(TotalStr), NoneV, <<1>>) :
        k \in {KeyA, KeyB}}
    \cup {FormReq("upload", Some(k), Some(<<"0">>), Some(TotalStr), NoneV, <<2, 2>>) :
        k \in {KeyA, KeyB}}

NextKeys ==
    \E p \in Procs :
        \/ StartChunk(p, KeyChunkReqs, MaxKeyReqs)
        \/ RawBody(p)
        \/ FormParsed(p)
        \/ ChunkRead(p)

SpecKeys == Init /\ [][NextKeys]_vars

\* SpecInputs: requests with missing or malformed fields, next to a valid
\* upload and a valid merge.
InputRaw(k, i, t) == RawReq(OffsetType, k, i, t, NoneV, <<1>>)
InputForm(fk, k, i, t) == FormReq(fk, k, i, t, NoneV, <<1>>)

InputChunkReqs ==
    {InputRaw(Some(KeyA), Some(<<"0">>), Some(TotalStr)),
     InputRaw(NoneV, Some(<<"0">>), Some(TotalStr)),
     InputRaw(Some(KeyA), Some(<<"x">>), Some(TotalStr)),
     InputRaw(Some(KeyA), Some(<<"-", "1">>), Some(TotalStr)),
     InputRaw(Some(KeyA), Some(<<"0">>), NoneV),
     InputForm("upload", Some(KeyA), Some(<<"0">>), Some(TotalStr)),
     InputForm("upload", NoneV, Some(<<"0">>), Some(TotalStr)),
     InputForm("upload", Some(KeyA), Some(<<"x">>), Some(TotalStr)),
     InputForm("upload", Some(KeyA), Some(<<"-", "1">>), Some(TotalStr)),
     InputForm("upload", Some(KeyA), Some(<<"0">>), NoneV),
     InputForm("none", Some(KeyA), Some(<<"0">>), Some(TotalStr)),
     InputForm("text", Some(KeyA), Some(<<"0">>), Some(TotalStr)),
     [InputForm("upload", Some(KeyA), Some(<<"0">>), Some(TotalStr))
         EXCEPT !.formOk = FALSE]}

InputMergeReqs ==
    {MergeReq(Some(KeyA), NoneV, NoneV),
     MergeReq(NoneV, NoneV, NoneV),
     [MergeReq(Some(KeyA), NoneV, NoneV) EXCEPT !.jsonOk = FALSE]}

InputUrlReqs ==
    {UrlReq(Some(SomeUrl)), UrlReq(NoneV),
     [UrlReq(Some(SomeUrl)) EXCEPT !.jsonOk = FALSE]}

NextInputs ==
    \E p \in Procs :
        \/ StartChunk(p, InputChunkReqs, MaxInputReqs)
        \/ RawBody(p)
        \/ FormParsed(p)
        \/ ChunkRead(p)
        \/ StartMerge(p, InputMergeReqs, MaxInputReqs)
        \/ MergeStep(p)
        \/ StartFromUrl(p, InputUrlReqs, MaxInputReqs)
        \/ FromUrlStep(p)

SpecInputs == Init /\ [][NextInputs]_vars

\* SpecOrder: chunks whose indices leave gaps, do not start at 0 and pass
\* the six digits of the file name, uploaded with totals that say otherwise.
MaxOrderReqs == 4

OrderPayload(i) ==
    IF i = <<"3">> THEN <<1>> ELSE IF i = <<"9","9","9","9","9","9">> THEN <<2, 2>>
    ELSE <<3>>

OrderChunkReqs ==
    {RawReq(OffsetType, Some(KeyA), Some(i), Some(t), NoneV, OrderPayload(i)) :
        i \in {<<"3">>, <<"9","9","9","9","9","9">>, <<"1","0","0","0","0","0","0">>},
        t \in {<<"1">>, TotalStr}}

OrderMergeReqs == {MergeReq(Some(KeyA), NoneV, cl) : cl \in {NoneV, Some(FALSE)}}

NextOrder ==
    \E p \in Procs :
        \/ StartChunk(p, OrderChunkReqs, MaxOrderReqs)
        \/ RawBody(p)
        \/ StartMerge(p, OrderMergeReqs, MaxOrderReqs)
        \/ MergeStep(p)

SpecOrder == Init /\ [][NextOrder]_vars

(***************************************************************************)
(* The subtitle timestamp formatter (services/formatters.py)               *)
(***************************************************************************)
\* largest number of whole hours among the formatted inputs
MaxStampHours == 1

\* timedelta(milliseconds=ms): the whole seconds (days * 86400 + seconds)
\* and the microseconds the normalised value holds
TdSeconds(ms) == ms \div 1000
TdMicroseconds(ms) == (ms % 1000) * 1000

\* int(td.total_seconds()): the float is truncated towards zero
TotalSeconds(ms) ==
    IF TdSeconds(ms) < 0 /\ TdMicroseconds(ms) > 0
    THEN TdSeconds(ms) + 1
    ELSE TdSeconds(ms)

\* f"{n:0w}": sign first, then zeros up to the width, never truncated
FormatPadded(n, w) ==
    IF n < 0 THEN <<"-">> \o ZeroPad(NatStr(-n), w - 1)
    ELSE ZeroPad(NatStr(n), w)

\* the formatter with the minutes not reduced modulo the hour
FormatTimestampRunningMinutes(milliseconds) ==
    LET total_seconds == TotalSeconds(milliseconds)
        ms      == TdMicroseconds(milliseconds) \div 1000
        hours   == total_seconds \div 3600
        minutes == total_seconds \div 60
        seconds == total_seconds % 60
    IN  FormatPadded(hours, 2) \o <<":">> \o FormatPadded(minutes, 2)
          \o <<":">> \o FormatPadded(seconds, 2) \o <<",">>
          \o FormatPadded(ms, 3)

\* _format_timestamp(milliseconds)
FormatTimestamp(milliseconds) ==
    LET total_seconds == TotalSeconds(milliseconds)
        ms      == TdMicroseconds(milliseconds) \div 1000
        hours   == total_seconds \div 3600
        minutes == (total_seconds % 3600) \div 60
        seconds == total_seconds % 60
    IN  FormatPadded(hours, 2) \o <<":">> \o FormatPadded(minutes, 2)
          \o <<":">> \o FormatPadded(seconds, 2) \o <<",">>
          \o FormatPadded(ms, 3)

\* str.replace(old, new) for one-character old and new
Replace(s, old, new) ==
    [i \in 1..Len(s) |-> IF s[i] = old THEN new ELSE s[i]]

\* the timestamp as to_srt and as to_vtt write it
SrtStamp(ms) == FormatTimestamp(ms)
VttStamp(ms) == Replace(FormatTimestamp(ms), ",", ".")

\* the sentence boundaries handed to the formatter: hours, minutes, seconds
\* and milliseconds at the edges of their ranges, and a three-digit hour
StampInputs ==
    {h * 3600000 + m * 60000 + sec * 1000 + f :
        h \in (0..MaxStampHours) \cup {100}, m \in {0, 1, 59},
        sec \in {0, 1, 59}, f \in {0, 5, 500, 999}}

InitStamp ==
    /\ ServerInit
    /\ stamp \in {[NoStamp EXCEPT !.ms = m] : m \in StampInputs}

\* one sentence boundary is written in both subtitle formats
FormatStamp ==
    /\ stamp.srt = <<>>
    /\ stamp' = [stamp EXCEPT !.srt = SrtStamp(stamp.ms),
                              !.vtt = VttStamp(stamp.ms)]
    /\ UNCHANGED <<fs, tmpfiles, pc, req, fd, last, nreq, acked, begun>>

NextStamp == FormatStamp

SpecStamp == InitStamp /\ [][NextStamp]_vars

(***************************************************************************)
(* Properties of the upload session.                                       *)
(***************************************************************************)
\* the step is the body of the merge handler in slot p
MergeDone(p) == pc[p] = "merge" /\ pc'[p] = "idle"

\* the merge in slot p was requested after every acknowledgement so far,
\* all earlier requests were uploads that were acknowledged, and no other
\* request is in flight
OnlyAckedUploadsBefore(p) ==
    /\ \A q \in Procs \ {p} : pc[q] = "idle"
    /\ nreq = TotalAcks + 1
    /\ \A e \in DOMAIN acked : p \notin acked[e].before

\* exactly the chunks 0..n-1 of key k were uploaded, each once
UploadedOnce(k, n) ==
    /\ DOMAIN acked = {<<k, i>> : i \in 0..(n - 1)}
    /\ \A e \in DOMAIN acked : acked[e].n = 1

RECURSIVE ConcatAcked(_, _, _)
\* the acknowledged bytes of chunks i..n-1 of key k, in index order
ConcatAcked(k, i, n) ==
    IF i >= n THEN <<>> ELSE acked[<<k, i>>].data \o ConcatAcked(k, i + 1, n)

\* C1: when chunks 0..N-1 of a key were each uploaded once, in whatever
\* order they arrived, and were acknowledged, a merge of the key succeeds and
\* its merged bytes are the chunks' payloads concatenated in index order.
C1_MergeConcatenates ==
    [][\A p \in Procs : \A k \in {KeyA, KeyB} : \A n \in 1..MaxStoreReqs :
          (MergeDone(p) /\ req[p].jmd5 = Some(k)
           /\ OnlyAckedUploadsBefore(p) /\ UploadedOnce(k, n))
          => /\ last'.status = 200
             /\ last'.artifact = Some(ConcatAcked(k, 0, n))]_vars

\* C1 witness: chunks 0, 1, 2 were acknowledged with chunk 2 before chunk 0,
\* and the merge returned their payloads in index order.
C1_OutOfOrderMerged ==
    /\ last.ep = "merge" /\ last.status = 200
    /\ \A q \in Procs : pc[q] = "idle"
    /\ nreq = TotalAcks + 1
    /\ UploadedOnce(KeyA, 3)
    /\ acked[<<KeyA, 2>>].seq < acked[<<KeyA, 0>>].seq
    /\ last.artifact = Some(ConcatAcked(KeyA, 0, 3))

\* C2: when an index was uploaded more than once, the merge reads for it
\* exactly the bytes of the upload that completed last: no byte of an
\* earlier payload is left, even when the earlier payload was longer.
C2_LastWriteWins ==
    [][\A p \in Procs :
          (MergeDone(p) /\ OnlyAckedUploadsBefore(p))
          => \A e \in DOMAIN acked :
                (Some(e[1]) = req[p].jmd5 /\ acked[e].n >= 2)
                => \E j \in 1..Len(last'.parts) :
                      last'.parts[j] = <<e[2], acked[e].data>>]_vars

\* the file a merge request writes its output to
MergedPath(f, r) ==
    OpenWb(f, ChunkDirComps(Val(r.jmd5))
              \o Components(GetOr(r.jfilename, DefaultFilename(Val(r.jmd5))))).path

\* C3: after a merge with cleanup that returned success, whatever came
\* before it, the key's session directory and the merged file are gone (so
\* a later merge of the key is refused for the missing directory).
C3_CleanupRemovesSession ==
    [][\A p \in Procs :
          (MergeDone(p) /\ last'.status = 200 /\ last'.cleanup)
          => /\ ~IsDir(fs', ChunkDirComps(Val(req[p].jmd5)))
             /\ ~IsFileAt(fs', MergedPath(fs, req[p]))]_vars

\* C4: a merge of a key no upload has touched is answered 400 for the
\* missing session; it creates no merged file, changes nothing on disk and
\* does not call the recognizer.
C4_MergeUnknownKey ==
    [][\A p \in Procs :
          (MergeDone(p) /\ Val(req[p].jmd5) \notin begun)
          => /\ last'.status = 400
             /\ last'.detail = "Chunk directory not found"
             /\ last'.artifact = NoneV
             /\ last'.asr = "none"
             /\ fs' = fs]_vars

\* C4 witness: other keys have sessions, and a merge of a key without one
\* was refused.
C4_UnknownKeyRefused ==
    /\ last.ep = "merge" /\ last.status = 400
    /\ last.detail = "Chunk directory not found"
    /\ begun # {}
    /\ Val(last.key) \notin begun

\* the key holds a parent-directory component
HasDotDot(k) == \E i \in 1..Len(Components(k)) : Components(k)[i] = DotDot

\* C5: a request whose key holds a path-traversal sequence is rejected
\* with a 400, and nothing is ever created outside the staging directory.
C5_TraversalRejected ==
    /\ \A d \in fs.dirs : d[1] = ChunksDirName
    /\ \A f \in DOMAIN fs.files : f[1] = ChunksDirName
    /\ (~IsNone(last.key) /\ HasDotDot(Val(last.key))) => last.status = 400

\* the Authorization header of the request the step receives
ReceivedAuth ==
    IF \E p \in Procs : pc[p] = "idle" /\ pc'[p] # "idle"
    THEN req'[CHOOSE p \in Procs : pc[p] = "idle" /\ pc'[p] # "idle"].auth
    ELSE last'.auth

\* the header is missing or its token is not the configured secret
BadToken(h) == IsNone(h) \/ Partition(Val(h), " ")[3] # API_KEY

\* C6: on every endpoint a request whose bearer token is missing or wrong
\* is answered 401 at once: no handler starts, no file is written or
\* deleted, no temporary file is made and the recognizer is not called.
C6_Unauthorized ==
    [][(nreq' = nreq + 1 /\ BadToken(ReceivedAuth))
       => /\ last'.status = 401
          /\ last'.asr = "none"
          /\ pc' = pc /\ fd' = fd
          /\ fs' = fs /\ tmpfiles' = tmpfiles
          /\ acked' = acked /\ begun' = begun]_vars

\* C6 witness: with a chunk in the store, a merge with a wrong token was
\* answered 401.
C6_MergeRefused ==
    /\ last.ep = "merge" /\ last.status = 401
    /\ ~IsNone(last.auth) /\ BadToken(last.auth)
    /\ DOMAIN fs.files # {}

\* the key of the request whose handler takes the step
ActingKey ==
    IF \E p \in Procs : pc[p] # "idle" /\ pc'[p] # pc[p]
    THEN ReqKey(req[CHOOSE p \in Procs : pc[p] # "idle" /\ pc'[p] # pc[p]])
    ELSE IF \E p \in Procs : pc[p] = "idle" /\ pc'[p] # "idle"
    THEN ReqKey(req'[CHOOSE p \in Procs : pc[p] = "idle" /\ pc'[p] # "idle"])
    ELSE last'.key

\* the files stored under key k
StoredUnder(f, k) ==
    {q \in DOMAIN f.files : Len(q) >= 2 /\ q[1] = ChunksDirName /\ q[2] = k}

\* C7: a step taken for one key, an upload or a merge with any output file
\* name, leaves every file stored under another key in place and unchanged.
C7_KeysIndependent ==
    [][\A k \in {KeyA, KeyB} :
          ActingKey # Some(k)
          => \A q \in StoredUnder(fs, k) :
                q \in DOMAIN fs'.files /\ fs'.files[q] = fs.files[q]]_vars

\* C8: a chunk that was acknowledged, and whose file no later step
\* overwrote or removed, is read with the acknowledged bytes by every merge
\* of its key requested afterwards.
C8_AckedChunkMerged ==
    [][\A p \in Procs :
          MergeDone(p)
          => \A e \in DOMAIN acked :
                (Some(e[1]) = req[p].jmd5 /\ acked[e].intact
                 /\ p \notin acked[e].before)
                => /\ last'.status = 200
                   /\ \E j \in 1..Len(last'.parts) :
                         last'.parts[j] = <<e[2], acked[e].data>>]_vars

\* slot p serves an upload that is suspended at an await
InFlightUpload(p) == pc[p] \in {"body", "form", "read"}

\* the directory of the key the upload in slot q names
UploadDir(f, q) == Resolve(f, <<>>, ChunkDirComps(Val(ReqKey(req[q])))).path

\* The upload in slot q takes its next step, which brings it to its next
\* await or to its acknowledgement, and changes no file outside the
\* directory of its own key.
UploadAdvances(q) ==
    /\ RawBody(q) \/ FormParsed(q) \/ ChunkRead(q)
    /\ \/ pc'[q] = "read"
       \/ last'.ep = "chunk" /\ last'.status = 200 /\ last'.key = ReqKey(req[q])
    /\ \A path \in (DOMAIN fs.files) \cup (DOMAIN fs'.files) :
          FileAt(fs, path) # FileAt(fs', path) => Parent(path) = UploadDir(fs', q)

\* C9: while an upload for one key is suspended at any of its awaits, an
\* upload for another key can take each of its steps up to its
\* acknowledgement, and it writes only under its own key.
C9_UploadsDoNotBlock ==
    \A p, q \in Procs :
        (/\ p # q /\ InFlightUpload(p) /\ InFlightUpload(q)
         /\ ReqKey(req[p]) # ReqKey(req[q]))
        => ENABLED UploadAdvances(q)

\* C9 witness: the second request, an upload for key B, was acknowledged
\* while the first, an upload for key A, is suspended with its chunk file
\* open.
C9_OtherKeyAcked ==
    /\ pc["p1"] = "read" /\ ReqKey(req["p1"]) = Some(KeyA)
    /\ nreq = 2
    /\ last.ep = "chunk" /\ last.status = 200 /\ last.key = Some(KeyB)

\* C10: when the recognizer raises, the request is answered 500, never
\* with a success that carries an empty transcription.
C10_RecognizerFailureIs500 ==
    last.asr = "raise" => last.status = 500

\* C11: a merge that ends in an error (an error response, or the recognizer
\* raising) leaves every file stored under its key in place and unchanged.
C11_FailedMergeKeepsChunks ==
    [][\A p \in Procs :
          (MergeDone(p) /\ ~IsNone(req[p].jmd5)
           /\ (last'.status # 200 \/ last'.asr = "raise"))
          => \A q \in StoredUnder(fs, Val(req[p].jmd5)) :
                q \in DOMAIN fs'.files /\ fs'.files[q] = fs.files[q]]_vars

\* the step is the body of the from_url handler in slot p
FromUrlDone(p) == pc[p] = "url" /\ pc'[p] = "idle"

\* C12: whenever from_url made its temporary file, whether the download
\* failed, the recognizer failed or the transcription succeeded, the file
\* is removed exactly once and no temporary file is left after the response.
C12_FromUrlTempRemoved ==
    [][\A p \in Procs :
          (FromUrlDone(p) /\ ~IsNone(last'.tmp))
          => /\ Val(last'.tmp) \notin tmpfiles'
             /\ last'.removed = 1
             /\ tmpfiles' = tmpfiles]_vars

\* C12 witness: a from_url request whose download failed was answered 500
\* after its temporary file was made and removed.
C12_FetchFailedCleaned ==
    /\ last.ep = "from_url" /\ last.status = 500
    /\ ~IsNone(last.tmp) /\ last.removed = 1
    /\ Val(last.tmp) \notin tmpfiles

\* C13: after a transcriptions request that made its temporary file, whether
\* the copy of the upload failed, the recognizer failed or it succeeded, the
\* file is gone.
C13_TranscriptionTempRemoved ==
    (last.ep = "transcriptions" /\ ~IsNone(last.tmp))
    => Val(last.tmp) \notin tmpfiles

\* the request whose handler takes the step
ActingReq ==
    IF \E p \in Procs : pc[p] # "idle" /\ pc'[p] # pc[p]
    THEN req[CHOOSE p \in Procs : pc[p] # "idle" /\ pc'[p] # pc[p]]
    ELSE IF \E p \in Procs : pc[p] = "idle" /\ pc'[p] # "idle"
    THEN req'[CHOOSE p \in Procs : pc[p] = "idle" /\ pc'[p] # "idle"]
    ELSE last'.req

\* the step ends its handler with a response
StepReplies == ~\E p \in Procs : pc'[p] # "idle" /\ pc'[p] # pc[p]

Absent(o) == IsNone(o) \/ Val(o) = <<>>

\* a required field of the request is missing or malformed: the key, the
\* index or the file of an upload, the JSON body or the key of a merge, the
\* JSON body or the url of a from_url request
Malformed(r) ==
    \/ /\ r.ep = "chunk" /\ RawRoute(r)
       /\ Absent(r.hmd5) \/ IsNone(r.hidx) \/ IntFails(Val(r.hidx))
    \/ /\ r.ep = "chunk" /\ ~RawRoute(r)
       /\ \/ ~r.formOk \/ r.ffile # "upload"
          \/ Absent(r.fmd5) \/ IsNone(r.fidx) \/ IntFails(Val(r.fidx))
    \/ r.ep = "merge" /\ (~r.jsonOk \/ Absent(r.jmd5))
    \/ r.ep = "from_url" /\ (~r.jsonOk \/ Absent(r.jurl))

\* C14: the handler of a request with a missing or malformed required
\* field performs no I/O at any of its steps (no directory, chunk, merged
\* file or temporary file is made, the recognizer is not called) and answers
\* 400.
C14_MalformedRejectedBeforeIO ==
    [][Malformed(ActingReq)
       => /\ fs' = fs /\ tmpfiles' = tmpfiles
          /\ StepReplies => (last'.status = 400 /\ last'.asr = "none")]_vars

\* the index string an upload carries, None when absent
ReqIdx(r) == IF RawRoute(r) THEN r.hidx ELSE r.fidx

\* the total an upload declares, None when absent
ReqTotal(r) == IF RawRoute(r) THEN r.htotal ELSE r.ftotal

\* an upload with a key, an integer index and a file
WellFormedUpload(r) ==
    /\ r.ep = "chunk" /\ ~Absent(ReqKey(r))
    /\ ~IsNone(ReqIdx(r)) /\ ~IntFails(Val(ReqIdx(r)))
    /\ RawRoute(r) \/ (r.formOk /\ r.ffile = "upload")

\* C18: an upload whose index is a negative integer is rejected and stores
\* nothing: its handler makes no directory and writes no file.
C18_NegativeIndexRejected ==
    [][(WellFormedUpload(ActingReq) /\ IntOf(Val(ReqIdx(ActingReq))) < 0)
       => /\ fs' = fs
          /\ StepReplies => last'.status = 400]_vars

\* C19: an upload that declares no totalChunks, with a key, a non-negative
\* index and a file, is acknowledged and its payload is stored as the chunk.
C19_TotalOptional ==
    [][(/\ WellFormedUpload(ActingReq)
        /\ IntOf(Val(ReqIdx(ActingReq))) >= 0
        /\ IsNone(ReqTotal(ActingReq))
        /\ StepReplies)
       => /\ last'.status = 200
          /\ FileAt(fs', <<ChunksDirName, Val(ReqKey(ActingReq)),
                           ChunkName(IntOf(Val(ReqIdx(ActingReq))))>>)
             = Some(ActingReq.body)]_vars

\* the merge in slot p passes its checks, opens its output and is to clean up
MergeCleansUp(p) ==
    LET r == req[p]
        baseC == ChunkDirComps(Val(r.jmd5))
        base == Resolve(fs, <<>>, baseC).path
    IN /\ r.jsonOk /\ ~Absent(r.jmd5) /\ GetOr(r.jcleanup, TRUE)
       /\ MergeCheck(fs, baseC, ChunkFiles(fs, base)).status = 200
       /\ OpenWb(fs, baseC \o Components(GetOr(r.jfilename,
                                               DefaultFilename(Val(r.jmd5))))).ok

\* C15: when the cleanup after a merge fails (the staging directory or the
\* merged file is still there afterwards), the merge is not failed: it
\* returns 200 with the transcription of the merged file, and the failure
\* is only logged.
C15_CleanupFailureTolerated ==
    [][\A p \in Procs :
          (/\ MergeDone(p) /\ MergeCleansUp(p)
           /\ \/ IsDir(fs', ChunkDirComps(Val(req[p].jmd5)))
              \/ IsFileAt(fs', MergedPath(fs, req[p])))
          => /\ last'.status = 200
             /\ ~IsNone(last'.artifact)
             /\ last'.text = Some(ResultText(Transcribe(last'.asr)))
             /\ last'.warned]_vars

\* C15 witness: a merge with cleanup was answered 200 although its cleanup
\* failed and left the staging directory behind.
C15_MergedDespiteCleanupFailure ==
    /\ last.ep = "merge" /\ last.status = 200
    /\ last.cleanup /\ last.warned
    /\ IsDir(fs, ChunkDirComps(Val(last.key)))

\* a number below 10^w as exactly w decimal digits
FixedDigits(n, w) ==
    [i \in 1..w |-> DigitChars[((n \div (10 ^ (w - i))) % 10) + 1]]

\* the hours: two digits, more when the value needs them
HourDigits(n) == IF n < 100 THEN FixedDigits(n, 2) ELSE NatStr(n)

\* HH, MM, SS, mmm of a millisecond count, joined by ':' and the given
\* fraction separator
StampOf(ms, sep) ==
    HourDigits(ms \div 3600000) \o <<":">>
      \o FixedDigits((ms \div 60000) % 60, 2) \o <<":">>
      \o FixedDigits((ms \div 1000) % 60, 2) \o <<sep>>
      \o FixedDigits(ms % 1000, 3)

\* C16: a non-negative millisecond count is written HH:MM:SS,mmm for SRT
\* and HH:MM:SS.mmm for VTT, with HH = ms div 3600000, MM = (ms div 60000)
\* mod 60, SS = (ms div 1000) mod 60 and mmm = ms mod 1000, zero-padded;
\* 1500 gives 00:00:01,500 and 3661000 gives 01:01:01,000.
C16_TimestampFormat ==
    stamp.srt # <<>> =>
        /\ stamp.srt = StampOf(stamp.ms, ",")
        /\ stamp.vtt = StampOf(stamp.ms, ".")
        /\ stamp.ms = 1500 =>
              stamp.srt = <<"0","0",":","0","0",":","0","1",",","5","0","0">>
        /\ stamp.ms = 3661000 =>
              stamp.srt = <<"0","1",":","0","1",":","0","1",",","0","0","0">>

C16_HourMinuteSecondFormatted ==
    /\ stamp.ms = 3661000
    /\ stamp.srt = <<"0","1",":","0","1",":","0","1",",","0","0","0">>
    /\ stamp.vtt = <<"0","1",":","0","1",":","0","1",".","0","0","0">>

\* the raw-bytes request that carries the fields and payload of upload r
AsRaw(r) ==
    IF RawRoute(r) THEN r
    ELSE [RawReq(OffsetType, r.fmd5, r.fidx, r.ftotal, r.fname, r.body)
             EXCEPT !.auth = r.auth]

\* the chunk file upload r names
UploadPath(r) ==
    <<ChunksDirName, Val(ReqKey(r)), ChunkName(IntOf(Val(ReqIdx(r))))>>

\* C20: an upload in either transport form is acknowledged as the raw-bytes
\* form of the same (key, index, totalChunks, filename, payload) is, with
\* {status, chunk_index, filename, bytes}, and like the raw-bytes form it
\* leaves the chunk file as it was until the step that stores the payload
\* and acknowledges.
C20_FormsEquivalent ==
    [][(WellFormedUpload(ActingReq) /\ ~IsNone(ReqTotal(ActingReq)))
       => /\ (StepReplies /\ last'.status = 200)
                => last' = RawAck(AsRaw(ActingReq))
          /\ ~StepReplies
                => FileAt(fs', UploadPath(ActingReq))
                     = FileAt(fs, UploadPath(ActingReq))]_vars

\* the indices of key k that have an acknowledged upload
AckedIndices(k) == {e[2] : e \in {d \in DOMAIN acked : d[1] = k}}

Least(S) == CHOOSE m \in S : \A n \in S : m <= n

RECURSIVE ConcatAscending(_, _)
\* the acknowledged bytes of the chunks S of key k, by ascending index
ConcatAscending(k, S) ==
    IF S = {} THEN <<>>
    ELSE acked[<<k, Least(S)>>].data \o ConcatAscending(k, S \ {Least(S)})

\* C17: whatever non-empty set of indices was stored for a key (with gaps,
\* not starting at 0, beyond six digits) and whatever totalChunks the uploads
\* declared, a merge of the key succeeds and its merged bytes are exactly the
\* stored chunks concatenated by ascending integer index, not in the
\* lexicographic order of their names.
C17_MergeNumericallyOrdered ==
    [][\A p \in Procs :
          (/\ MergeDone(p) /\ req[p].jmd5 = Some(KeyA)
           /\ OnlyAckedUploadsBefore(p)
           /\ AckedIndices(KeyA) # {}
           /\ \A e \in DOMAIN acked : acked[e].n = 1)
          => /\ last'.status = 200
             /\ last'.artifact = Some(ConcatAscending(KeyA, AckedIndices(KeyA)))
             /\ [j \in 1..Len(last'.parts) |-> last'.parts[j][1]]
                   \in {o \in Orderings(AckedIndices(KeyA)) :
                          \A i, j \in 1..Len(o) : i < j => o[i] < o[j]}]_vars

\* C17 witness: only chunks 999999 and 1000000 were stored, declared with a
\* total of 1, and the merge returned 999999's bytes before 1000000's.
C17_SevenDigitIndexMergedLast ==
    /\ last.ep = "merge" /\ last.status = 200
    /\ \A q \in Procs : pc[q] = "idle"
    /\ nreq = TotalAcks + 1
    /\ AckedIndices(KeyA) = {999999, 1000000}
    /\ \A e \in DOMAIN acked : acked[e].n = 1
    /\ \A q \in Procs : req[q].ep = "chunk" => req[q].htotal = Some(<<"1">>)
    /\ last.artifact = Some(<<2, 2, 3>>)

\* the session directory of the key merge request r names
SessionDir(f, r) == Resolve(f, <<>>, ChunkDirComps(Val(r.jmd5))).path

\* the stored chunks of the key of r: file name |-> bytes
StoredChunks(f, r) ==
    [n \in ChunkFiles(f, SessionDir(f, r)) |-> f.files[SessionDir(f, r) \o <<n>>]]

\* C21: a merge with cleanup=false, whatever output filename it is given,
\* leaves the set of stored chunks of its key and the bytes of each chunk
\* unchanged (so that the merge can be repeated with the same artifact).
C21_MergeWithoutCleanupKeepsChunks ==
    [][\A p \in Procs :
          (/\ MergeDone(p) /\ req[p].jsonOk /\ ~Absent(req[p].jmd5)
           /\ req[p].jcleanup = Some(FALSE)
           /\ IsDir(fs, ChunkDirComps(Val(req[p].jmd5))))
          => StoredChunks(fs', req[p]) = StoredChunks(fs, req[p])]_vars

\* the complete payloads that uploads of chunk i of key k carry
UploadPayloads(k, i) ==
    {r.body : r \in {u \in StoreChunkReqs :
                        ReqKey(u) = Some(k) /\ IntOf(Val(ReqIdx(u))) = i}}

\* C22: however uploads and a merge of the same key interleave, every chunk
\* the merge reads into its artifact is the complete payload of one upload
\* of that index, never the empty or partly written file of an upload that
\* is still in flight.
C22_MergeReadsWholeChunks ==
    [][\A p \in Procs :
          (MergeDone(p) /\ last'.status = 200)
          => \A j \in 1..Len(last'.parts) :
                last'.parts[j][2]
                   \in UploadPayloads(Val(req[p].jmd5), last'.parts[j][1])]_vars

\* the step acknowledges the upload in slot p
UploadAcked(p) ==
    /\ pc[p] \in {"body", "read"} /\ pc'[p] = "idle"
    /\ last'.ep = "chunk" /\ last'.status = 200

\* C23: post-merge cleanup takes no acknowledged chunk that was not merged:
\* an upload that is acknowledged after a merge of its key has listed, read
\* and cleaned up the chunks is still stored, with its payload, after that
\* cleanup.
C23_AckedAfterMergeStillStored ==
    [][\A p \in Procs :
          (/\ UploadAcked(p)
           /\ last.ep = "merge" /\ last.status = 200 /\ last.cleanup
           /\ last.key = ReqKey(req[p]))
          => FileAt(fs', UploadPath(req[p])) = Some(req[p].body)]_vars

============================================================================
